---------------------------- MODULE Spec2Model ----------------------------
(* Model of aplt/runner.py: the RunnerHarness (waiter queue, connection     *)
(* registry, live-instance counter, notification relay) and the LoadRunner  *)
(* (staggered launch schedule, finished).  The scenario driver              *)
(* (CommandProcessor), the websocket protocol and treq are collaborators;   *)
(* they are modelled at the calls runner.py makes to them and receives      *)
(* from them.                                                               *)
EXTENDS Integers, Sequences, FiniteSets, TLC

(* ------------------------------ bounds --------------------------------- *)
MaxPlans == 2
MaxQuantity == 3
MaxStagger == 2
MaxDelay == 1
MaxProcs == 2
MaxSteps == 2
MaxConns == 3
MaxScenarios == 2

VARIABLES
  testplans,        \* LoadRunner._testplans: sequence of [quantity, stagger, delay]
  harnesses,        \* LoadRunner._harnesses: sequence of harness ids
  started,          \* LoadRunner._started
  queued_calls,     \* LoadRunner._queued_calls
  timers,           \* the reactor's pending callLater(...) calls of start()
  loc,              \* the local variables of start() that runall closes over
  st,               \* the loop position of start(): entry index, delay index, iterations
  protocol_harness, \* WSClientProtocol.harness (a class attribute), 0 when unset
  processors,       \* RunnerHarness._processors, per harness
  connect_waiters,  \* RunnerHarness._connect_waiters, per harness
  ws_clients,       \* RunnerHarness._ws_clients, per harness: set of <<conn, processor>>
  procs,            \* the CommandProcessor instances created by run()
  conns,            \* the connection attempts issued by connectWS
  notifs,           \* the treq.post calls issued by send_notification
  pc,               \* position of the single thread of control
  frame,            \* the running call: who called run(), on which harness, what is left
  cur,              \* the processor being resumed, 0 when none
  running,          \* the reactor is running
  stats_listening,  \* STATS_PROTOCOL is listening
  polled,           \* what check_loadrunner last read from finished: "none", "true", "false"
  connect_log,      \* history, per harness: the processors that called connect(), in order
  match_log,        \* history, per harness: <<conn, processor>> of each successful add_client
  run_calls,        \* history, per harness: number of run() calls begun
  batch_log         \* history: one record per completed runall batch

vars == <<testplans, harnesses, started, queued_calls, timers, loc, st,
          protocol_harness, processors, connect_waiters, ws_clients,
          procs, conns, notifs, pc, frame, cur, running, stats_listening,
          polled, connect_log, match_log, run_calls, batch_log>>

lrvars == <<testplans, harnesses, started, queued_calls, timers, loc, st>>
hvars == <<processors, connect_waiters, ws_clients>>
logvars == <<polled, connect_log, match_log, run_calls, batch_log>>
extvars == <<procs, conns, notifs>>
ctlvars == <<pc, frame, cur, running, stats_listening>>

(* ------------------------------ helpers -------------------------------- *)
NoFrame == [caller |-> "none", h |-> 0, left |-> 0, entry |-> 0, d |-> 0, runs |-> 0]

\* Python 2 integer division of positive ints; Iterations_ceil is the faulty
\* variant that rounds up, scheduling a batch for the remainder
Iterations_ceil(quantity, stagger) == (quantity + stagger - 1) \div stagger
Iterations(quantity, stagger) == quantity \div stagger

\* all([...]) over a list of booleans
All(bs) == \A i \in 1..Len(bs) : bs[i]

(* --------------------------- RunnerHarness ----------------------------- *)
Harnesses == 1..Len(processors)

\* RunnerHarness.__init__: empty bookkeeping; the protocol CLASS gets the
\* new harness as its harness attribute (line 42-43), replacing any earlier one.
harness_init ==
  /\ processors' = Append(processors, 0)
  /\ connect_waiters' = Append(connect_waiters, <<>>)
  /\ ws_clients' = Append(ws_clients, {})
  /\ protocol_harness' = Len(processors) + 1
  /\ connect_log' = Append(connect_log, <<>>)
  /\ match_log' = Append(match_log, <<>>)
  /\ run_calls' = Append(run_calls, 0)

\* connectWS(factory, ...): one more connection attempt in flight
connectWS(h, cs) == Append(cs, [factory |-> h, st |-> "attempt"])

\* deque.popleft(); popleft_right is the faulty variant deque.pop(), which
\* takes the newest waiter
popleft_right(q) == [item |-> q[Len(q)], rest |-> SubSeq(q, 1, Len(q) - 1)]
popleft(q) == [item |-> Head(q), rest |-> Tail(q)]

\* dict lookup ws_clients.get(c): the processor registered for c, 0 if none
registered(h, c) ==
  IF \E e \in ws_clients[h] : e[1] = c
  THEN (CHOOSE e \in ws_clients[h] : e[1] = c)[2]
  ELSE 0

\* the return point of a driver resumption: back into run(), or to the reactor
ReturnPc == IF frame.caller = "none" THEN "reactor" ELSE "run_incr"

\* the processor is handed a result or an event and resumes
Resume(p, ps) == [ps EXCEPT ![p].st = "resuming"]

\* RunnerHarness.run, lines 64-65: create the processor and start it
run_begin(h) ==
  /\ procs' = Append(procs, [harness |-> h, st |-> "resuming", steps |-> 0])
  /\ cur' = Len(procs) + 1
  /\ pc' = "resume"
  /\ run_calls' = [run_calls EXCEPT ![h] = @ + 1]

\* RunnerHarness.connect; connect_appendleft is the faulty variant that queues
\* the caller at the head (deque.appendleft)
connect_appendleft(h, p) ==
  /\ conns' = connectWS(h, conns)
  /\ connect_waiters' = [connect_waiters EXCEPT ![h] = <<p>> \o @]
  /\ connect_log' = [connect_log EXCEPT ![h] = Append(@, p)]
connect(h, p) ==
  /\ conns' = connectWS(h, conns)
  /\ connect_waiters' = [connect_waiters EXCEPT ![h] = Append(@, p)]
  /\ connect_log' = [connect_log EXCEPT ![h] = Append(@, p)]

\* RunnerHarness.send_notification: one treq.post, with the callback pair
\* (_sent_notification, _error_notif) carrying the processor.  data only
\* selects the headers of the request (lines 77-89); ttl is not used.
send_notification(h, p, data) ==
  /\ notifs' = Append(notifs, [proc |-> p, st |-> "request", results |-> <<>>])

\* RunnerHarness.remove_processor
remove_processor(h) ==
  /\ processors' = [processors EXCEPT ![h] = @ - 1]

\* RunnerHarness.add_client for connection c, followed by the protocol
\* handing the connection to the returned processor.
\* add_client_register_surplus is the faulty variant that records a surplus
\* connection in the registry.
add_client_register_surplus(h, c) ==
  IF connect_waiters[h] = <<>>
  THEN /\ conns' = [conns EXCEPT ![c].st = "closing"]
       /\ ws_clients' = [ws_clients EXCEPT ![h] = @ \cup {<<c, 0>>}]
       /\ UNCHANGED <<connect_waiters, match_log, procs, cur, pc>>
  ELSE LET w == popleft(connect_waiters[h]) IN
       /\ connect_waiters' = [connect_waiters EXCEPT ![h] = w.rest]
       /\ ws_clients' = [ws_clients EXCEPT ![h] =
                           {e \in @ : e[1] # c} \cup {<<c, w.item>>}]
       /\ conns' = [conns EXCEPT ![c].st = "open"]
       /\ match_log' = [match_log EXCEPT ![h] = Append(@, <<c, w.item>>)]
       /\ procs' = Resume(w.item, procs)
       /\ cur' = w.item
       /\ pc' = "resume"
add_client(h, c) ==
  IF connect_waiters[h] = <<>>
  THEN \* IndexError: log, ws_client.sendClose(), return None
       /\ conns' = [conns EXCEPT ![c].st = "closing"]
       /\ UNCHANGED <<connect_waiters, ws_clients, match_log, procs, cur, pc>>
  ELSE LET w == popleft(connect_waiters[h]) IN
       /\ connect_waiters' = [connect_waiters EXCEPT ![h] = w.rest]
       /\ ws_clients' = [ws_clients EXCEPT ![h] =
                           {e \in @ : e[1] # c} \cup {<<c, w.item>>}]
       /\ conns' = [conns EXCEPT ![c].st = "open"]
       /\ match_log' = [match_log EXCEPT ![h] = Append(@, <<c, w.item>>)]
       \* the protocol delivers the connection to the returned processor
       /\ procs' = Resume(w.item, procs)
       /\ cur' = w.item
       /\ pc' = "resume"

\* RunnerHarness.remove_client for connection c; cs is conns with c closed.
\* Faulty variants: remove_client_always_retry reconnects without looking at
\* the waiter queue; remove_client_retry_registered reconnects for a
\* registered connection instead of an unregistered one.
remove_client_always_retry(h, c, cs) ==
  IF registered(h, c) # 0
  THEN /\ ws_clients' = [ws_clients EXCEPT ![h] = {e \in @ : e[1] # c}]
       /\ conns' = cs
  ELSE /\ conns' = connectWS(h, cs)
       /\ UNCHANGED ws_clients
remove_client_retry_registered(h, c, cs) ==
  IF registered(h, c) # 0
  THEN /\ ws_clients' = [ws_clients EXCEPT ![h] = {e \in @ : e[1] # c}]
       /\ conns' = IF Len(connect_waiters[h]) > 0 THEN connectWS(h, cs) ELSE cs
  ELSE /\ conns' = cs
       /\ UNCHANGED ws_clients
remove_client(h, c, cs) ==
  IF registered(h, c) # 0
  THEN /\ ws_clients' = [ws_clients EXCEPT ![h] = {e \in @ : e[1] # c}]
       /\ conns' = cs
  ELSE IF Len(connect_waiters[h]) > 0
       THEN /\ conns' = connectWS(h, cs)
            /\ UNCHANGED ws_clients
       ELSE /\ conns' = cs
            /\ UNCHANGED ws_clients

(* ------------------------- notification relay -------------------------- *)
\* the processor bound into the callbacks by addCallback(..., processor);
\* callback_processor_latest is the faulty variant of a late-bound variable,
\* the processor created last
callback_processor_latest(n) == Len(procs)
callback_processor(n) == notifs[n].proc

\* processor._send_command_result(...): the result reaches processor p
send_command_result(n, p, kind, st2) ==
  /\ notifs' = [notifs EXCEPT ![n].st = st2,
                              ![n].results = Append(@, [to |-> p, kind |-> kind])]
  /\ procs' = Resume(p, procs)
  /\ cur' = p
  /\ pc' = "resume"

\* _finished_notification(result, response, processor)
finished_notification(n) ==
  send_command_result(n, callback_processor(n), "success", "done")

\* _error_notif(self, failure, processor) takes two arguments; called with
\* nargs arguments.  With any other number the call raises TypeError inside
\* the Deferred and nothing is sent to the processor.
error_notif(n, nargs) ==
  IF nargs = 2
  THEN send_command_result(n, callback_processor(n), "failure", "done")
  ELSE /\ notifs' = [notifs EXCEPT ![n].st = "done"]
       /\ UNCHANGED <<procs, cur, pc>>

(* ----------------------------- LoadRunner ------------------------------ *)
\* LoadRunner.finished; finished_ignores_queue is the faulty variant that
\* leaves out self._queued_calls == 0
finished_ignores_queue ==
  All(<<started, All([i \in 1..Len(harnesses) |-> processors[harnesses[i]] = 0])>>)
finished ==
  All(<<started,
        queued_calls = 0,
        All([i \in 1..Len(harnesses) |-> processors[harnesses[i]] = 0])>>)

\* run_testplan: lh.start(url)
StartBegin ==
  /\ pc = "main"
  /\ pc' = "start_entry"
  /\ st' = [i |-> 1, d |-> 0, iterations |-> 0]
  /\ UNCHANGED <<testplans, harnesses, started, queued_calls, timers, loc,
                 protocol_harness, hvars, extvars, frame, cur, running,
                 stats_listening, logvars>>

\* start(): the body of the outer for loop up to the inner loop: the loop
\* variables are rebound, a harness is created and appended
StartEntry ==
  /\ pc = "start_entry"
  /\ st.i <= Len(testplans)
  /\ LET e == testplans[st.i] IN
       /\ harness_init
       /\ harnesses' = Append(harnesses, Len(processors) + 1)
       /\ loc' = [harness |-> Len(processors) + 1, stagger |-> e.stagger,
                  delay |-> e.delay]
       /\ st' = [st EXCEPT !.d = 0, !.iterations = Iterations(e.quantity, e.stagger)]
  /\ pc' = "start_batch"
  /\ UNCHANGED <<testplans, started, queued_calls, timers, extvars, frame, cur,
                 running, stats_listening, polled, batch_log>>

\* start(): self._queued_calls += 1; StartIncr_uncounted is the faulty variant
\* that goes on to schedule the batch without counting it
StartIncr_uncounted ==
  /\ pc = "start_batch"
  /\ st.d < st.iterations
  /\ pc' = "start_later"
  /\ UNCHANGED <<testplans, harnesses, started, queued_calls, timers, loc, st,
                 protocol_harness, hvars, extvars, frame, cur, running,
                 stats_listening, logvars>>
StartIncr ==
  /\ pc = "start_batch"
  /\ st.d < st.iterations
  /\ queued_calls' = queued_calls + 1
  /\ pc' = "start_later"
  /\ UNCHANGED <<testplans, harnesses, started, timers, loc, st, protocol_harness,
                 hvars, extvars, frame, cur, running, stats_listening, logvars>>

\* start(): reactor.callLater(overall_delay+delay, runall)
StartCallLater ==
  /\ pc = "start_later"
  /\ timers' = timers \cup {[time |-> loc.delay + st.d, entry |-> st.i, d |-> st.d]}
  /\ st' = [st EXCEPT !.d = @ + 1]
  /\ pc' = "start_batch"
  /\ UNCHANGED <<testplans, harnesses, started, queued_calls, loc, protocol_harness,
                 hvars, extvars, frame, cur, running, stats_listening, logvars>>

\* start(): the inner loop is exhausted, on to the next test plan entry
StartNextEntry ==
  /\ pc = "start_batch"
  /\ st.d = st.iterations
  /\ st' = [st EXCEPT !.i = @ + 1]
  /\ pc' = "start_entry"
  /\ UNCHANGED <<testplans, harnesses, started, queued_calls, timers, loc,
                 protocol_harness, hvars, extvars, frame, cur, running,
                 stats_listening, logvars>>

\* start(): self._started = True, and run_testplan goes on to reactor.run()
StartDone ==
  /\ pc = "start_entry"
  /\ st.i > Len(testplans)
  /\ started' = TRUE
  /\ pc' = "reactor"
  /\ UNCHANGED <<testplans, harnesses, queued_calls, timers, loc, st,
                 protocol_harness, hvars, extvars, frame, cur, running,
                 stats_listening, logvars>>

\* the reactor fires the earliest delayed call: runall() is entered; its
\* free variables harness and stagger are the cells of start()'s frame
RunallFire(t) ==
  /\ pc = "reactor" /\ running
  /\ t \in timers
  /\ \A u \in timers : t.time <= u.time
  /\ timers' = timers \ {t}
  /\ frame' = [caller |-> "runall", h |-> loc.harness, left |-> loc.stagger,
               entry |-> t.entry, d |-> t.d, runs |-> 0]
  /\ pc' = "runall"
  /\ UNCHANGED <<testplans, harnesses, started, queued_calls, loc, st,
                 protocol_harness, hvars, extvars, cur, running, stats_listening,
                 logvars>>

\* runall(): one iteration of for _ in range(stagger): harness.run(), up to
\* the processor's first resumption
RunallCall ==
  /\ pc = "runall"
  /\ frame.left > 0
  /\ run_begin(loc.harness)
  /\ frame' = [frame EXCEPT !.h = loc.harness]
  /\ UNCHANGED <<lrvars, protocol_harness, hvars, conns, notifs, running,
                 stats_listening, polled, connect_log, match_log, batch_log>>

\* RunnerHarness.run, line 66: self._processors += 1, and return to the caller
RunIncr ==
  /\ pc = "run_incr"
  /\ processors' = [processors EXCEPT ![frame.h] = @ + 1]
  /\ IF frame.caller = "runall"
     THEN /\ frame' = [frame EXCEPT !.left = @ - 1, !.runs = @ + 1]
          /\ pc' = "runall"
     ELSE /\ frame' = NoFrame
          /\ pc' = "reactor"
  /\ UNCHANGED <<lrvars, protocol_harness, connect_waiters, ws_clients, extvars,
                 cur, running, stats_listening, logvars>>

\* runall(): self._queued_calls -= 1
RunallEnd ==
  /\ pc = "runall"
  /\ frame.left = 0
  /\ queued_calls' = queued_calls - 1
  /\ batch_log' = batch_log \cup {[entry |-> frame.entry, d |-> frame.d,
                                   h |-> frame.h, runs |-> frame.runs]}
  /\ frame' = NoFrame
  /\ pc' = "reactor"
  /\ UNCHANGED <<testplans, harnesses, started, timers, loc, st, protocol_harness,
                 hvars, extvars, cur, running, stats_listening, polled,
                 connect_log, match_log, run_calls>>

\* check_loadrunner, the LoopingCall of run_testplan
CheckLoadrunner ==
  /\ pc = "reactor" /\ running
  /\ started
  /\ IF finished
     THEN /\ stats_listening' = FALSE
          /\ running' = FALSE
     ELSE UNCHANGED <<stats_listening, running>>
  /\ polled' = (IF finished THEN "true" ELSE "false")
  /\ UNCHANGED <<lrvars, protocol_harness, hvars, extvars, pc, frame, cur,
                 connect_log, match_log, run_calls, batch_log>>

(* ------------------------------ run_scenario --------------------------- *)
\* run_scenario(args, run=False): h = RunnerHarness(...)
ScenarioHarness ==
  /\ pc = "reactor" /\ running
  /\ Len(processors) < MaxScenarios
  /\ harness_init
  /\ frame' = [NoFrame EXCEPT !.caller = "run_scenario", !.h = Len(processors) + 1]
  /\ pc' = "scenario_run"
  /\ UNCHANGED <<lrvars, extvars, cur, running, stats_listening, polled, batch_log>>

\* run_scenario: h.run(), up to the processor's first resumption
ScenarioRun ==
  /\ pc = "scenario_run"
  /\ run_begin(frame.h)
  /\ UNCHANGED <<lrvars, protocol_harness, hvars, conns, notifs, frame, running,
                 stats_listening, polled, connect_log, match_log, batch_log>>

(* --------------------------- scenario driver --------------------------- *)
\* The resumed processor asks for a connection
DriverConnect ==
  /\ pc = "resume"
  /\ procs[cur].steps < MaxSteps
  /\ Len(conns) < MaxConns
  /\ connect(procs[cur].harness, cur)
  /\ procs' = [procs EXCEPT ![cur].st = "wait_conn", ![cur].steps = @ + 1]
  /\ pc' = ReturnPc
  /\ cur' = 0
  /\ UNCHANGED <<lrvars, protocol_harness, processors, ws_clients, notifs, frame,
                 running, stats_listening, polled, match_log, run_calls, batch_log>>

\* The resumed processor sends a notification, with or without a payload
DriverSendNotification ==
  /\ pc = "resume"
  /\ procs[cur].steps < MaxSteps
  /\ \E data \in BOOLEAN : send_notification(procs[cur].harness, cur, data)
  /\ procs' = [procs EXCEPT ![cur].st = "wait_notif", ![cur].steps = @ + 1]
  /\ pc' = ReturnPc
  /\ cur' = 0
  /\ UNCHANGED <<lrvars, protocol_harness, hvars, conns, frame, running,
                 stats_listening, logvars>>

\* The resumed processor has finished its scenario
DriverFinish ==
  /\ pc = "resume"
  /\ remove_processor(procs[cur].harness)
  /\ procs' = [procs EXCEPT ![cur].st = "done"]
  /\ pc' = ReturnPc
  /\ cur' = 0
  /\ UNCHANGED <<lrvars, protocol_harness, connect_waiters, ws_clients, conns,
                 notifs, frame, running, stats_listening, logvars>>

\* Creating the processor or its first resumption raises inside run(): run()
\* has no handler and neither has runall(), so the exception leaves run() before
\* line 66 and leaves the caller; the reactor logs it and goes on
DriverRaise ==
  /\ pc = "resume"
  /\ frame.caller # "none"
  /\ procs[cur].steps = 0
  /\ procs' = [procs EXCEPT ![cur].st = "failed"]
  /\ frame' = NoFrame
  /\ pc' = "reactor"
  /\ cur' = 0
  /\ UNCHANGED <<lrvars, protocol_harness, hvars, conns, notifs, running,
                 stats_listening, logvars>>

(* ------------------------- connection events --------------------------- *)
\* A connection attempt succeeds: the protocol's onOpen calls
\* self.harness.add_client(self), harness being the class attribute
ConnOpened(c) ==
  /\ pc = "reactor" /\ running
  /\ c \in 1..Len(conns) /\ conns[c].st = "attempt"
  /\ add_client(protocol_harness, c)
  /\ UNCHANGED <<lrvars, protocol_harness, processors, notifs, frame, running,
                 stats_listening, polled, connect_log, run_calls, batch_log>>

\* A connection attempt fails, or an open connection closes: the protocol's
\* onClose calls self.harness.remove_client(self)
ConnClosed(c) ==
  /\ pc = "reactor" /\ running
  /\ c \in 1..Len(conns) /\ conns[c].st \in {"attempt", "open", "closing"}
  /\ \/ registered(protocol_harness, c) # 0
     \/ connect_waiters[protocol_harness] = <<>>
     \/ Len(conns) < MaxConns
  /\ remove_client(protocol_harness, c, [conns EXCEPT ![c].st = "closed"])
  /\ UNCHANGED <<lrvars, protocol_harness, processors, connect_waiters, procs,
                 notifs, ctlvars, logvars>>

(* ------------------------ notification events -------------------------- *)
\* treq.post fires with a response: _sent_notification asks for the body and
\* hangs (_finished_notification, _error_notif) on the new Deferred
sent_notification(n) ==
  /\ notifs' = [notifs EXCEPT ![n].st = "content"]
  /\ UNCHANGED <<procs, cur, pc>>

ResponseReceived(n) ==
  /\ pc = "reactor" /\ running
  /\ n \in 1..Len(notifs) /\ notifs[n].st = "request"
  /\ sent_notification(n)
  /\ UNCHANGED <<lrvars, protocol_harness, hvars, conns, frame, running,
                 stats_listening, logvars>>

\* treq.post fails: the errback of line 91, _error_notif(failure, processor)
RequestFailed(n) ==
  /\ pc = "reactor" /\ running
  /\ n \in 1..Len(notifs) /\ notifs[n].st = "request"
  /\ error_notif(n, 2)
  /\ UNCHANGED <<lrvars, protocol_harness, hvars, conns, frame, running,
                 stats_listening, logvars>>

\* result.content() fires with the body: _finished_notification
BodyRead(n) ==
  /\ pc = "reactor" /\ running
  /\ n \in 1..Len(notifs) /\ notifs[n].st = "content"
  /\ finished_notification(n)
  /\ UNCHANGED <<lrvars, protocol_harness, hvars, conns, frame, running,
                 stats_listening, logvars>>

\* result.content() fails: the errback of line 96,
\* _error_notif(failure, result, processor)
BodyFailed(n) ==
  /\ pc = "reactor" /\ running
  /\ n \in 1..Len(notifs) /\ notifs[n].st = "content"
  /\ error_notif(n, 3)
  /\ UNCHANGED <<lrvars, protocol_harness, hvars, conns, frame, running,
                 stats_listening, logvars>>

(* --------------------------- specifications ---------------------------- *)
PlanEntries == [quantity : 1..MaxQuantity, stagger : 1..MaxStagger, delay : 0..MaxDelay]

Batches(plan) ==
  LET F[i \in 0..Len(plan)] ==
        IF i = 0 THEN 0
        ELSE F[i - 1] + Iterations(plan[i].quantity, plan[i].stagger)
  IN F[Len(plan)]

MaxOf(S) == CHOOSE x \in S : \A y \in S : y <= x

\* the test plans whose population stays within MaxProcs processors
Plans ==
  {plan \in UNION {[1..n -> PlanEntries] : n \in 1..MaxPlans} :
     Batches(plan) * MaxOf({plan[i].stagger : i \in 1..Len(plan)}) <= MaxProcs}

InitCommon ==
  /\ harnesses = <<>>
  /\ started = FALSE
  /\ queued_calls = 0
  /\ timers = {}
  /\ loc = [harness |-> 0, stagger |-> 0, delay |-> 0]
  /\ st = [i |-> 0, d |-> 0, iterations |-> 0]
  /\ protocol_harness = 0
  /\ processors = <<>>
  /\ connect_waiters = <<>>
  /\ ws_clients = <<>>
  /\ procs = <<>>
  /\ conns = <<>>
  /\ notifs = <<>>
  /\ frame = NoFrame
  /\ cur = 0
  /\ running = TRUE
  /\ stats_listening = TRUE
  /\ polled = "none"
  /\ connect_log = <<>>
  /\ match_log = <<>>
  /\ run_calls = <<>>
  /\ batch_log = {}

\* run_testplan: a LoadRunner over a parsed test plan
Init ==
  /\ testplans \in Plans
  /\ pc = "main"
  /\ InitCommon

Timers == \E t \in timers : RunallFire(t)

Driver == DriverConnect \/ DriverSendNotification \/ DriverFinish \/ DriverRaise

ConnEvents == \E c \in 1..MaxConns : ConnOpened(c) \/ ConnClosed(c)

NotifEvents ==
  \E n \in 1..(MaxProcs * MaxSteps) :
    ResponseReceived(n) \/ RequestFailed(n) \/ BodyRead(n) \/ BodyFailed(n)

Next ==
  \/ StartBegin \/ StartEntry \/ StartIncr \/ StartCallLater
  \/ StartNextEntry \/ StartDone
  \/ Timers
  \/ RunallCall \/ RunIncr \/ RunallEnd
  \/ Driver
  \/ ConnEvents
  \/ NotifEvents
  \/ CheckLoadrunner

Spec == Init /\ [][Next]_vars

\* run_scenario(run=False), called up to MaxScenarios times in one process
InitScenario ==
  /\ testplans = <<>>
  /\ pc = "reactor"
  /\ InitCommon

NextScenario ==
  \/ ScenarioHarness \/ ScenarioRun \/ RunIncr
  \/ Driver
  \/ ConnEvents
  \/ NotifEvents

SpecScenario == InitScenario /\ [][NextScenario]_vars

(* ------------------------------- claims -------------------------------- *)
\* the connection whose attempt resolves into an opened connection in this
\* step: the step is add_client(c) on the protocol's harness
AddClientStep(c) ==
  /\ c \in 1..Len(conns)
  /\ conns[c].st = "attempt"
  /\ conns'[c].st \in {"open", "closing"}

\* the connection that closes in this step: the step is remove_client(c) on
\* the protocol's harness
RemoveClientStep(c) ==
  /\ c \in 1..Len(conns)
  /\ conns[c].st # "closed"
  /\ conns'[c].st = "closed"

Matched(c) == \E h \in Harnesses : \E k \in 1..Len(match_log[h]) : match_log[h][k][1] = c

ConnectCalls ==
  LET F[h \in 0..Len(connect_log)] ==
        IF h = 0 THEN 0 ELSE F[h - 1] + Len(connect_log[h])
  IN F[Len(connect_log)]

\* C1: on every harness the k-th successful add_client returned the instance
\* of the k-th connect() call, each match with a connection of its own,
\* whatever the order in which the attempts completed.
C1_FifoMatching ==
  \A h \in Harnesses :
    /\ Len(match_log[h]) <= Len(connect_log[h])
    /\ \A k \in 1..Len(match_log[h]) : match_log[h][k][2] = connect_log[h][k]
    /\ \A j, k \in 1..Len(match_log[h]) :
         j # k => match_log[h][j][1] # match_log[h][k][1]

\* two instances matched on one harness, the attempt issued second completing first
C1_Witness ==
  \E h \in Harnesses :
    /\ Len(match_log[h]) >= 2
    /\ match_log[h][1][2] # match_log[h][2][2]
    /\ match_log[h][1][1] > match_log[h][2][1]

\* C2: the result of a send_notification request is delivered at most once,
\* and only to the instance that issued the request.
C2_AtMostOnceToRequester ==
  \A n \in 1..Len(notifs) :
    /\ Len(notifs[n].results) <= 1
    /\ \A r \in 1..Len(notifs[n].results) : notifs[n].results[r].to = notifs[n].proc

\* a later request's result (a failure) was delivered while an earlier
\* request of another instance is still in flight
C2_Witness ==
  \E m, n \in 1..Len(notifs) :
    /\ m < n
    /\ notifs[m].proc # notifs[n].proc
    /\ notifs[m].st # "done"
    /\ Len(notifs[n].results) = 1
    /\ notifs[n].results[1].kind = "failure"

\* C3: every send_notification request whose transport call has completed,
\* by success, request failure or body-read failure, has resumed the
\* requesting instance exactly once with a result.
C3_EveryCompletionDelivers ==
  \A n \in 1..Len(notifs) :
    notifs[n].st = "done" =>
      /\ Len(notifs[n].results) = 1
      /\ notifs[n].results[1].to = notifs[n].proc

\* C4: the live-instance counter of a harness is never negative, also when a
\* driver terminates during its first resumption inside run().
C4_CounterNeverNegative ==
  \A h \in Harnesses : processors[h] >= 0

\* C5: finished is true exactly when started is set, no scheduled call is
\* pending and every owned harness has no live instance; it is false before
\* start() has returned and while a scheduled batch has not fired or not
\* completed; and reading it changes nothing.
C5_State ==
  /\ finished <=> (/\ started
                   /\ queued_calls = 0
                   /\ \A i \in 1..Len(harnesses) : processors[harnesses[i]] = 0)
  /\ pc \in {"main", "start_entry", "start_batch", "start_later"} => ~finished
  /\ (timers # {} \/ frame.caller = "runall") => ~finished

C5_ReadOnly ==
  polled' # polled =>
    /\ polled' = (IF finished THEN "true" ELSE "false")
    /\ UNCHANGED <<lrvars, protocol_harness, hvars, extvars>>

C5_Finished == [](C5_State) /\ [][C5_ReadOnly]_vars

\* check_loadrunner has read finished as true after a batch launched instances
C5_Witness ==
  /\ polled = "true"
  /\ batch_log # {}
  /\ \E h \in Harnesses : run_calls[h] > 0

\* C6: for every test-plan entry, start() schedules floor(quantity/stagger)
\* batches at times delay + d, and once they have all fired the number of
\* run() calls made for the entry (on its harness) is
\* stagger * floor(quantity/stagger).
C6_BatchesAndRuns ==
  started =>
    \A i \in 1..Len(testplans) :
      LET e == testplans[i]
          n == e.quantity \div e.stagger
      IN /\ (batch_log = {} /\ frame = NoFrame) =>
              {t \in timers : t.entry = i} =
                {[time |-> e.delay + d, entry |-> i, d |-> d] : d \in 0..(n - 1)}
         /\ (timers = {} /\ frame = NoFrame) =>
              run_calls[harnesses[i]] = e.stagger * n

\* C7: every batch callback of entry E calls run() exactly E's stagger times
\* on the harness created for E.
C7_BatchUsesOwnEntry ==
  \A b \in batch_log :
    /\ b.h = harnesses[b.entry]
    /\ b.runs = testplans[b.entry].stagger

\* C8: add_client on an empty waiter queue closes the connection, returns no
\* instance and leaves the queue, the registry and the counter unchanged.
C8_SurplusStep ==
  \A c \in 1..Len(conns) :
    (AddClientStep(c) /\ connect_waiters[protocol_harness] = <<>>) =>
      /\ conns'[c].st = "closing"
      /\ cur' = 0
      /\ pc' = "reactor"
      /\ UNCHANGED <<connect_waiters, ws_clients, processors, procs>>

C8_SurplusClosed == [][C8_SurplusStep]_vars

\* a surplus connection has been closed by add_client
C8_Witness ==
  \E c \in 1..Len(conns) : conns[c].st = "closing" /\ ~Matched(c)

\* C9: remove_client for a connection without registry entry, the waiter
\* queue being empty, issues no connection attempt and changes nothing.
C9_NoopStep ==
  \A c \in 1..Len(conns) :
    (/\ RemoveClientStep(c)
     /\ registered(protocol_harness, c) = 0
     /\ connect_waiters[protocol_harness] = <<>>) =>
      /\ Len(conns') = Len(conns)
      /\ \A d \in 1..Len(conns) : d # c => conns'[d] = conns[d]
      /\ UNCHANGED <<connect_waiters, ws_clients, processors, procs, pc, cur>>

C9_UnmatchedCloseNoop == [][C9_NoopStep]_vars

\* the only connection ever attempted has closed unmatched and no replacement
\* was issued: it closed on a harness whose waiter queue was empty
C9_Witness ==
  /\ Len(conns) = 1
  /\ conns[1].st = "closed"
  /\ ~Matched(1)
  /\ connect_waiters[protocol_harness] = <<>>
  /\ connect_log[protocol_harness] = <<>>

\* C10: remove_client issues exactly one replacement attempt when the
\* connection has no registry entry and the waiter queue is non-empty, and
\* none when it had a registry entry, of which it removes just that pair; the
\* waiter queue is not modified in either case.
C10_RemoveStep ==
  \A c \in 1..Len(conns) :
    RemoveClientStep(c) =>
      LET h == protocol_harness
          p == registered(h, c)
      IN /\ connect_waiters' = connect_waiters
         /\ (p = 0 /\ connect_waiters[h] # <<>>) =>
              /\ Len(conns') = Len(conns) + 1
              /\ conns'[Len(conns')] = [factory |-> h, st |-> "attempt"]
              /\ ws_clients' = ws_clients
         /\ p # 0 =>
              /\ Len(conns') = Len(conns)
              /\ ws_clients' = [ws_clients EXCEPT ![h] = @ \ {<<c, p>>}]

C10_ReplacementAttempt == [][C10_RemoveStep]_vars

\* a failed attempt has been replaced (more attempts than connect() calls)
\* and a matched connection has closed and left the registry
C10_Witness ==
  /\ Len(conns) > ConnectCalls
  /\ \E h \in Harnesses : \E k \in 1..Len(match_log[h]) :
       /\ conns[match_log[h][k][1]].st = "closed"
       /\ match_log[h][k] \notin ws_clients[h]

NonDivisible(i) == testplans[i].quantity % testplans[i].stagger # 0

\* C11 (as claimed): a test-plan entry whose quantity is not divisible by its
\* stagger makes start() fail: started is never set and no run() call is made.
C11_FailsFast ==
  (\E i \in 1..Len(testplans) : NonDivisible(i)) =>
    /\ ~started
    /\ \A h \in Harnesses : run_calls[h] = 0

\* C11 (amended): a non-divisible quantity is no error.  start() returns with
\* started set, having scheduled floor(quantity / stagger) batches for every
\* entry and counted each in the pending-call counter; the remainder is not
\* scheduled.
C11_TruncatesSilently ==
  (started /\ frame = NoFrame /\ procs = <<>>) =>
    /\ queued_calls = Cardinality(timers)
    /\ \A i \in 1..Len(testplans) :
         Cardinality({t \in timers : t.entry = i}) =
           testplans[i].quantity \div testplans[i].stagger

\* a plan with an entry of quantity 3 and stagger 2 has started and its one
\* batch has launched instances
C11_Witness ==
  /\ started
  /\ \E b \in batch_log :
       /\ NonDivisible(b.entry)
       /\ testplans[b.entry].quantity > testplans[b.entry].stagger
       /\ b.runs > 0

\* the instances of harness h that were launched and have not terminated
Live(h) ==
  {p \in 1..Len(procs) : procs[p].harness = h /\ procs[p].st \notin {"done", "failed"}}

\* C12: an error raised while creating or first resuming a driver inside run()
\* is fatal to that instance only: whenever control is back in the reactor,
\* every batch that fired has been counted out of the pending-call counter
\* (the counter equals the number of batches still to fire), and the
\* live-instance counter counts exactly the instances that can still terminate.
C12_ErrorFatalToInstanceOnly ==
  (started /\ pc = "reactor") =>
    /\ queued_calls = Cardinality(timers)
    /\ \A h \in Harnesses : processors[h] = Cardinality(Live(h))

\* C13: the event loop is stopped only in a state where finished is true, with
\* the metrics socket closed by then; and once start() has returned, no batch
\* is left to fire and no launched instance is still live, finished is true, so
\* that the next poll of check_loadrunner stops the loop.
C13_LoopStopsWhenAllTerminated ==
  /\ ~running => (finished /\ ~stats_listening)
  /\ (started /\ pc = "reactor" /\ timers = {} /\ \A h \in Harnesses : Live(h) = {})
       => finished

Assigned(h) == [k \in 1..Len(match_log[h]) |-> match_log[h][k][2]]

\* every connect() call is accounted for: the callers of connect(), in call
\* order, are those already assigned followed by those still queued, and no
\* connection was assigned twice
C14_State ==
  /\ \A h \in Harnesses : connect_log[h] = Assigned(h) \o connect_waiters[h]
  /\ \A h, g \in Harnesses :
       \A k \in 1..Len(match_log[h]) : \A m \in 1..Len(match_log[g]) :
         match_log[h][k][1] = match_log[g][m][1] => (h = g /\ k = m)

\* a step leaves a queue alone, appends one caller at its tail, or is an
\* add_client that removes its head and assigns it to the opened connection
C14_QueueStep ==
  \A h \in Harnesses :
    LET q == connect_waiters[h]
        r == connect_waiters'[h]
    IN \/ r = q
       \/ Len(r) = Len(q) + 1 /\ SubSeq(r, 1, Len(q)) = q
       \/ /\ q # <<>> /\ r = Tail(q)
          /\ \E c \in 1..Len(conns) :
               /\ AddClientStep(c)
               /\ conns'[c].st = "open"
               /\ match_log'[h] = Append(match_log[h], <<c, Head(q)>>)

C15_RegistryOneToOne ==
  \A h \in Harnesses :
    /\ \A e, f \in ws_clients[h] : (e[1] = f[1] \/ e[2] = f[2]) => e = f
    /\ \A e \in ws_clients[h] :
         \A k \in 1..Len(connect_waiters[h]) : connect_waiters[h][k] # e[2]

\* C16: an instance that has signalled termination (remove_processor) is in
\* no harness bookkeeping: neither in a Waiter Queue nor in an Active
\* Connection Registry.
C16_TerminatedInstanceForgotten ==
  \A p \in 1..Len(procs) :
    procs[p].st = "done" =>
      \A h \in Harnesses :
        /\ \A k \in 1..Len(connect_waiters[h]) : connect_waiters[h][k] # p
        /\ \A e \in ws_clients[h] : e[2] # p

InStart == pc \in {"main", "start_entry", "start_batch", "start_later"}

\* C17: in start() the pending-call counter is incremented for a batch before
\* the batch is handed to the timer, and started is set only after every batch
\* of every entry has been scheduled; so for a plan with at least one batch,
\* finished is false from the beginning of start() until the last scheduled
\* batch has fired.
C17_CountedBeforeScheduled ==
  /\ Cardinality(timers) <= queued_calls
  /\ pc = "start_later" => queued_calls > Cardinality(timers)
  /\ InStart => ~started
  /\ started => st.i > Len(testplans)
  /\ (Batches(testplans) >= 1 /\ (InStart \/ timers # {})) => ~finished

\* start() has returned, one batch has fired and its instances are gone, and
\* another batch is still pending: only the counter keeps finished false
C17_Witness ==
  /\ started
  /\ timers # {}
  /\ batch_log # {}
  /\ \A h \in Harnesses : processors[h] = 0
  /\ ~finished

InFlight(h) ==
  {c \in 1..Len(conns) : conns[c].factory = h /\ conns[c].st = "attempt"}

\* C19: in every reachable state of a harness, the number of its connection
\* attempts in flight is at least the length of its Waiter Queue.
C19_AttemptsCoverWaiters ==
  \A h \in Harnesses : Cardinality(InFlight(h)) >= Len(connect_waiters[h])

\* C20: every instance that called connect() is eventually returned by
\* add_client; in its finite form: a Waiter Queue is never non-empty in a
\* state where no connection attempt at all is in flight, the state in which
\* no event is left that could serve the waiter.
C20_WaiterNeverStranded ==
  \A h \in Harnesses :
    connect_waiters[h] # <<>> =>
      \E c \in 1..Len(conns) : conns[c].st = "attempt"

=============================================================================
